---- MODULE Spec2Model ----
(***************************************************************************)
(* CarbonTally: tree identifiers, submission deduplication and the         *)
(* ingestion of KoBo planting and monitoring submissions into the SQLite   *)
(* store (kobo_integration.py, kobo_monitoring.py, app.py).                *)
(*                                                                         *)
(* Text values (institution names, tree identifiers) are sequences of      *)
(* one-character strings, so that upper-casing, the [^A-Z] filter, the     *)
(* startswith test, the \d+$ match and the :03d format are computed.       *)
(***************************************************************************)
EXTENDS Integers, Sequences, FiniteSets, TLC

\* ------------------------------------------------------------------ bounds
\* most rows the trees table holds in the explored runs
MaxTrees == 2
\* most rows monitoring_history holds in the explored runs
MaxHistory == 3
\* most entries the results list of one poll holds in the explored runs
MaxResults == 2
\* largest sequence number an identifier carries in the explored runs
MaxSeqNo == 4
\* most rows of the store handed to one generate_tree_id call in SpecGen
MaxGenRows == 2

\* ------------------------------------------------------------------ text
AsciiUpper ==
    {"A","B","C","D","E","F","G","H","I","J","K","L","M",
     "N","O","P","Q","R","S","T","U","V","W","X","Y","Z"}

DigitChars == {"0","1","2","3","4","5","6","7","8","9"}

\* str.upper() on one character: ASCII and non-ASCII letters are upper-cased,
\* everything else is kept.
UpperChar(c) ==
    CASE c = "a" -> "A" [] c = "b" -> "B" [] c = "c" -> "C" [] c = "e" -> "E"
      [] c = "g" -> "G" [] c = "i" -> "I" [] c = "l" -> "L" [] c = "n" -> "N"
      [] c = "o" -> "O" [] c = "r" -> "R" [] c = "s" -> "S" [] c = "t" -> "T"
      [] c = "y" -> "Y" [] c = "é" -> "É"
      [] OTHER -> c

\* str.lower() on one character.
LowerChar(c) ==
    CASE c = "A" -> "a" [] c = "B" -> "b" [] c = "C" -> "c" [] c = "E" -> "e"
      [] c = "G" -> "g" [] c = "I" -> "i" [] c = "L" -> "l" [] c = "N" -> "n"
      [] c = "O" -> "o" [] c = "R" -> "r" [] c = "S" -> "s" [] c = "T" -> "t"
      [] c = "Y" -> "y" [] c = "É" -> "é"
      [] OTHER -> c

Upper(s) == [i \in 1..Len(s) |-> UpperChar(s[i])]
Lower(s) == [i \in 1..Len(s) |-> LowerChar(s[i])]

IsSpace(c) == c = " "

\* str.strip(): leading and trailing whitespace removed.
RECURSIVE LStrip(_)
LStrip(s) == IF s # <<>> /\ IsSpace(s[1]) THEN LStrip(Tail(s)) ELSE s
RECURSIVE RStrip(_)
RStrip(s) ==
    IF s # <<>> /\ IsSpace(s[Len(s)]) THEN RStrip(SubSeq(s, 1, Len(s) - 1)) ELSE s
Strip(s) == RStrip(LStrip(s))

\* s[:n]
Take(s, n) == SubSeq(s, 1, IF Len(s) < n THEN Len(s) ELSE n)

\* str.startswith
StartsWith(s, p) == Len(p) <= Len(s) /\ SubSeq(s, 1, Len(p)) = p

\* re.sub(r'[^A-Z]', '', s)
SubNonAZ(s) == SelectSeq(s, LAMBDA c : c \in AsciiUpper)

DigitVal(c) ==
    CASE c = "0" -> 0 [] c = "1" -> 1 [] c = "2" -> 2 [] c = "3" -> 3
      [] c = "4" -> 4 [] c = "5" -> 5 [] c = "6" -> 6 [] c = "7" -> 7
      [] c = "8" -> 8 [] c = "9" -> 9

DigitOf(d) ==
    CASE d = 0 -> "0" [] d = 1 -> "1" [] d = 2 -> "2" [] d = 3 -> "3"
      [] d = 4 -> "4" [] d = 5 -> "5" [] d = 6 -> "6" [] d = 7 -> "7"
      [] d = 8 -> "8" [] d = 9 -> "9"

\* re.search(r'\d+$', s).group(): the longest run of digits ending s
\* (<<>> when there is no match).
RECURSIVE TrailingDigits(_)
TrailingDigits(s) ==
    IF s # <<>> /\ s[Len(s)] \in DigitChars
    THEN Append(TrailingDigits(SubSeq(s, 1, Len(s) - 1)), s[Len(s)])
    ELSE <<>>

\* int() of a run of digits
RECURSIVE IntOf(_)
IntOf(ds) ==
    IF ds = <<>> THEN 0
    ELSE 10 * IntOf(SubSeq(ds, 1, Len(ds) - 1)) + DigitVal(ds[Len(ds)])

\* str(n) for n >= 0
RECURSIVE Decimal(_)
Decimal(n) == IF n < 10 THEN <<DigitOf(n)>> ELSE Append(Decimal(n \div 10), DigitOf(n % 10))

RECURSIVE ZeroPad(_, _)
ZeroPad(ds, w) == IF Len(ds) >= w THEN ds ELSE ZeroPad(<<"0">> \o ds, w)

\* f"{n:0wd}": at least w digits, never truncated
FormatD(n, w) == ZeroPad(Decimal(n), w)

SeqMax(ns) ==
    CHOOSE m \in {ns[i] : i \in 1..Len(ns)} : \A i \in 1..Len(ns) : ns[i] <= m

\* the rows of a table (a sequence) as a set
Rows(t) == {t[i] : i \in 1..Len(t)}

\* ------------------------------------------------------- generate_tree_id
TRE == <<"T","R","E">>

\* width of the sequence number in an identifier (":03d")
SeqWidth == 3
\* width and modulus of the time-based fallback (":05d", "% 100000")
FallbackWidth == 5
FallbackMod == 100000

\* kobo_integration.generate_tree_id: the prefix
org_prefix(institution_name) ==
    IF institution_name = <<>> THEN TRE
    ELSE LET p == Take(SubNonAZ(Upper(institution_name)), 3)
         IN  IF p = <<>> THEN TRE ELSE p

\* the value standing for a call that raised instead of returning
Raised == <<"!">>

\* a generate_tree_id whose scan is not restricted to the organization
generate_tree_id_any_org(institution_name, table, scan_ok, now) ==
    LET prefix == org_prefix(institution_name) IN
    IF ~scan_ok
    THEN prefix \o FormatD(now % FallbackMod, FallbackWidth)
    ELSE
      LET prefix_ids == SelectSeq(table, LAMBDA r : StartsWith(r.tree_id, prefix))
          matched == SelectSeq(prefix_ids, LAMBDA r : TrailingDigits(r.tree_id) # <<>>)
          sequence_numbers ==
              [i \in 1..Len(matched) |-> IntOf(TrailingDigits(matched[i].tree_id))]
      IN  IF sequence_numbers = <<>> THEN prefix \o FormatD(1, SeqWidth)
          ELSE prefix \o FormatD(SeqMax(sequence_numbers) + 1, SeqWidth)

\* kobo_integration.generate_tree_id(institution_name) run against the trees
\* table `table`; scan_ok = FALSE is the scan raising (store unavailable), and
\* now is int(time.time()) then.
generate_tree_id(institution_name, table, scan_ok, now) ==
    LET prefix == org_prefix(institution_name) IN
    IF ~scan_ok
    THEN prefix \o FormatD(now % FallbackMod, FallbackWidth)
    ELSE
      LET local_ids == SelectSeq(table, LAMBDA r : r.institution = institution_name)
          prefix_ids == SelectSeq(local_ids, LAMBDA r : StartsWith(r.tree_id, prefix))
          matched == SelectSeq(prefix_ids, LAMBDA r : TrailingDigits(r.tree_id) # <<>>)
          sequence_numbers ==
              [i \in 1..Len(matched) |-> IntOf(TrailingDigits(matched[i].tree_id))]
      IN  IF prefix_ids = <<>> THEN prefix \o FormatD(1, SeqWidth)
          ELSE IF sequence_numbers = <<>> THEN prefix \o FormatD(1, SeqWidth)
          ELSE prefix \o FormatD(SeqMax(sequence_numbers) + 1, SeqWidth)

\* app.generate_tree_id(institution_name) against the trees table
app_generate_tree_id(institution_name, table) ==
    LET prefix == Upper(Take(institution_name, 3))
        institution_trees ==
            SelectSeq(table, LAMBDA r : Lower(r.institution) = Lower(institution_name))
        existing_ids == SelectSeq(institution_trees, LAMBDA r : StartsWith(r.tree_id, prefix))
        matched == SelectSeq(existing_ids, LAMBDA r : TrailingDigits(r.tree_id) # <<>>)
        nums == [i \in 1..Len(matched) |-> IntOf(TrailingDigits(matched[i].tree_id))]
    IN  IF table = <<>> THEN prefix \o FormatD(1, SeqWidth)
        ELSE IF existing_ids = <<>> THEN prefix \o FormatD(1, SeqWidth)
        ELSE IF nums = <<>> THEN Raised
        ELSE prefix \o FormatD(SeqMax(nums) + 1, SeqWidth)

\* ------------------------------------------------------------------ state
VARIABLES
    trees,             \* table trees, in rowid order
    treesConstrained,  \* trees still has PRIMARY KEY(tree_id), UNIQUE(kobo_submission_id)
    mhSchema,          \* which initializer created monitoring_history
    history,           \* table monitoring_history, in id order
    processed,         \* table processed_monitoring_submissions
    pc,                \* where each session's poll stands
    inst,              \* session_state.user["institution"] of each session
    cur,               \* mapped_data of the submission in hand
    tid,               \* tree_id generated for the submission in hand
    results,           \* the results list of the running poll
    gen_org,           \* SpecGen: the institution_name handed to generate_tree_id
    gen_table,         \* SpecGen: the trees table it scans
    gen_out,           \* SpecGen: what kobo_integration.generate_tree_id returned
    gen_scan_ok,       \* SpecGen: whether that scan succeeded
    gen_app_out,       \* SpecGen: what app.generate_tree_id returned
    species,           \* table species, in row order
    frame,             \* the DataFrame the last render of "Manage Trees" loaded
    est_in,            \* SpecEstimate: the arguments of calculate_co2_sequestration
    est_out            \* SpecEstimate: what it returned, in hundredths of a kg

vars == <<trees, treesConstrained, mhSchema, history, processed, pc, inst,
          cur, tid, results, gen_org, gen_table, gen_out, gen_scan_ok, gen_app_out,
          species, frame, est_in, est_out>>

storeVars == <<trees, treesConstrained, mhSchema, history, processed>>
pollVars == <<pc, inst, cur, tid, results>>
genVars == <<gen_org, gen_table, gen_out, gen_scan_ok, gen_app_out>>
adminVars == <<species, frame>>
estVars == <<est_in, est_out>>

\* the two browser sessions that may poll at the same time
Sessions == {1, 2}

\* a missing, None or empty _id
NoId == 0
NoText == <<>>
NoSub == [kobo_submission_id |-> NoId]

Green == <<"G","r","e","e","n">>
GreenLc == <<"g","r","e","e","n">>
Grey == <<"G","r","e","y">>
Blank == <<" ">>
Oak == <<"O","a","k">>
GRE001 == <<"G","R","E","0","0","1">>
XXX001 == <<"X","X","X","0","0","1">>
Acacia == <<"A","c","a","c","i","a">>
Unknown == <<"U","n","k","n","o","w","n">>

\* what get_kobo_submissions may return: planting submissions (rcd_cm and
\* dbh_cm in tenths of a cm, height_m in tenths of a metre)
PlantingFeed ==
    { [id |-> i, institution |-> n, null_institution |-> FALSE, local_name |-> Oak,
       scientific_name |-> Unknown, tree_stage |-> "Seedling",
       date_planted |-> 1, rcd_cm |-> 0, dbh_cm |-> 0, height_m |-> 5] :
         <<i, n>> \in {<<1, Green>>, <<2, GreenLc>>, <<3, Green>>, <<4, Grey>>,
                      <<NoId, Green>>, <<7, Blank>>} }
    \cup
    { [id |-> 6, institution |-> Green, null_institution |-> FALSE, local_name |-> NoText,
       scientific_name |-> Unknown, tree_stage |-> "Seedling",
       date_planted |-> 1, rcd_cm |-> 0, dbh_cm |-> 0, height_m |-> 5],
      [id |-> 8, institution |-> NoText, null_institution |-> TRUE, local_name |-> Oak,
       scientific_name |-> Unknown, tree_stage |-> "Seedling",
       date_planted |-> 1, rcd_cm |-> 0, dbh_cm |-> 0, height_m |-> 5] }

\* what get_kobo_monitoring_submissions may return: monitoring submissions
\* (has_rcd = FALSE: the submission carries no rcd_cm)
MonitoringFeed ==
    { [id |-> i, tree_id |-> t, tree_status |-> st, has_rcd |-> hr, rcd_cm |-> r,
       has_dbh |-> FALSE, dbh_cm |-> 0, has_height |-> FALSE, height_m |-> 0,
       has_stage |-> FALSE, growth_stage |-> "Seedling", monitor_date |-> d] :
         <<i, t, st, hr, r, d>> \in
            { <<11, GRE001, "Dead", TRUE, 40, 3>>,
              <<12, GRE001, "Alive", FALSE, 0, 2>>,
              <<13, NoText, "Alive", FALSE, 0, 2>>,
              <<14, XXX001, "Alive", FALSE, 0, 2>>,
              <<NoId, GRE001, "Alive", FALSE, 0, 2>> } }

UserInstitutions == {Green, Grey}
\* the status the admin selects in "Update Tree" (of Alive, Dead, Adopted)
AdminStatuses == {"Alive"}

\* int(time.time()) values seen when the fallback identifier is built
ClockValues == {100003}

\* ---------------------------------------------------------------- schema
\* The three initializers create monitoring_history IF NOT EXISTS, so the one
\* that runs first on an empty database decides its columns.
Initializers == {"kobo_integration", "app", "kobo_monitoring"}

\* monitoring_history has the column kobo_submission_id
MhHasKoboColumn(schema) == schema \in {"app", "kobo_monitoring"}
\* monitoring_history.kobo_submission_id is UNIQUE
MhKoboUnique(schema) == schema = "app"

\* -------------------------------------------------------- the estimator
\* Trunk sizes are tenths of a centimetre, wood densities hundredths of g/cm3
\* and co2_kg hundredths of a kilogram, and the estimator's arithmetic is done
\* exactly on integers: the result is the real value of the formula rounded
\* to the nearest hundredth.
DefaultDensity == 60
\* None as a trunk size: the size is not provided
None == -1000

\* the first six rows init_db seeds into an empty species table: the one the
\* feeds name
DefaultSpecies == <<[scientific_name |-> Acacia, wood_density |-> 65]>>

\* SELECT wood_density FROM species WHERE scientific_name = ?, .iloc[0], and
\* 0.6 when no row matches or the stored density is NULL (None as a density)
density_of(table, scientific_name) ==
    LET species_data == SelectSeq(table, LAMBDA r : r.scientific_name = scientific_name)
    IN  IF species_data # <<>> /\ species_data[1].wood_density # None
        THEN species_data[1].wood_density
        ELSE DefaultDensity

\* Natural numbers beyond 32 bits, as sequences of base-Limb digits, least
\* significant first, without leading zeros
Limb == 10000
BigOf(n) ==
    IF n = 0 THEN <<>>
    ELSE IF n < Limb THEN <<n>>
    ELSE IF n < Limb * Limb THEN <<n % Limb, n \div Limb>>
    ELSE <<n % Limb, (n \div Limb) % Limb, n \div (Limb * Limb)>>

\* a * k + carry for a small k > 0
RECURSIVE BigMulSmall(_, _, _)
BigMulSmall(a, k, carry) ==
    IF a = <<>> THEN BigOf(carry)
    ELSE LET v == Head(a) * k + carry
         IN  <<v % Limb>> \o BigMulSmall(Tail(a), k, v \div Limb)

\* the product of the small numbers of a sequence
RECURSIVE BigProduct(_)
BigProduct(ks) ==
    IF ks = <<>> THEN <<1>>
    ELSE BigMulSmall(BigProduct(Tail(ks)), Head(ks), 0)

\* a * Limb ** n
BigShift(a, n) == [i \in 1..n |-> 0] \o a

\* a < b
RECURSIVE BigLessFrom(_, _, _)
BigLessFrom(a, b, i) ==
    IF i = 0 THEN FALSE
    ELSE IF a[i] # b[i] THEN a[i] < b[i]
    ELSE BigLessFrom(a, b, i - 1)
BigLess(a, b) ==
    IF Len(a) # Len(b) THEN Len(a) < Len(b) ELSE BigLessFrom(a, b, Len(a))

\* the nearest integer to the square root of p / (4 * Limb ** n): the least
\* c of lo..hi with p < (2c + 1) ** 2 * Limb ** n
MaxHundredths == 16383
RECURSIVE RoundedRoot(_, _, _, _)
RoundedRoot(p, n, lo, hi) ==
    IF lo = hi THEN lo
    ELSE LET c == (lo + hi) \div 2
         IN  IF BigLess(p, BigShift(BigOf((2 * c + 1) * (2 * c + 1)), n))
             THEN RoundedRoot(p, n, lo, c)
             ELSE RoundedRoot(p, n, c + 1, hi)

\* |x|
Abs(x) == IF x < 0 THEN -x ELSE x

\* a DBH equation that keeps only the part of the estimate below one kilogram
DbhEquationBelowOne(density, dbh) ==
    LET p == BigProduct(<<47, 47, 12, 12, 367, 367, 509, 509,
                          Abs(density), Abs(density), dbh, dbh, dbh, dbh, dbh, 40>>)
        c == RoundedRoot(p, 6, 0, MaxHundredths) % 100
    IN  IF density = 0 THEN 0 ELSE IF density < 0 THEN -c ELSE c

\* round(0.47 * (agb + 0.2 * agb) * 3.67, 2) for agb = 0.0509 * density *
\* dbh ** 2.5, in hundredths: the nearest integer to
\* (47 * 12 * 367 * 509 / 10 ** 9) * density * sqrt(dbh ** 5 / 10 ** 5), with
\* the sign of density
DbhEquation(density, dbh) ==
    LET p == BigProduct(<<47, 47, 12, 12, 367, 367, 509, 509,
                          Abs(density), Abs(density), dbh, dbh, dbh, dbh, dbh, 40>>)
        c == RoundedRoot(p, 6, 0, MaxHundredths)
    IN  IF density = 0 THEN 0 ELSE IF density < 0 THEN -c ELSE c

\* an RCD equation with the coefficient of the DBH equation (0.0509 for 0.042)
RcdEquationDbhCoefficient(rcd) ==
    RoundedRoot(BigProduct(<<47, 47, 12, 12, 367, 367, 509, 509,
                             rcd, rcd, rcd, rcd, rcd, 40>>), 6, 0, MaxHundredths)

\* the same for agb = 0.042 * rcd ** 2.5: the nearest integer to
\* (47 * 12 * 367 * 42 / 10 ** 6) * sqrt(rcd ** 5 / 10 ** 5)
RcdEquation(rcd) ==
    RoundedRoot(BigProduct(<<47, 47, 12, 12, 367, 367, 42, 42,
                             rcd, rcd, rcd, rcd, rcd, 4000>>), 5, 0, MaxHundredths)

\* results of app.calculate_co2 that are not a weight: the float nan, and the
\* TypeError of 0.0509 * None
NaN == -30000
TypeErrorRaised == -30001

\* app.calculate_co2: the density is looked up in the frame load_species_data
\* returns (empty when the load failed) and only a failing lookup falls back to
\* 0.6; a NULL density is read as nan in a column that holds numbers and as
\* None in a column that holds none, and is used as it is
calculate_co2(table, scientific_name, rcd, dbh, load_ok) ==
    LET species_data == IF load_ok THEN table ELSE <<>>
        matching == SelectSeq(species_data, LAMBDA r : r.scientific_name = scientific_name)
        numeric == \E i \in 1..Len(species_data) : species_data[i].wood_density # None
        density == IF matching = <<>> THEN DefaultDensity
                   ELSE IF matching[1].wood_density # None THEN matching[1].wood_density
                   ELSE IF numeric THEN NaN ELSE TypeErrorRaised
    IN  IF dbh # None /\ dbh > 0
        THEN IF density \in {NaN, TypeErrorRaised} THEN density ELSE DbhEquation(density, dbh)
        ELSE IF rcd # None /\ rcd > 0 THEN RcdEquation(rcd)
        ELSE 0

\* an estimator that reads root-collar diameter before breast-height diameter
calculate_co2_sequestration_rcd_first(table, scientific_name, rcd, dbh, query_ok) ==
    IF ~query_ok THEN 0
    ELSE IF rcd # None /\ rcd > 0 THEN RcdEquation(rcd)
    ELSE IF dbh # None /\ dbh > 0 THEN DbhEquation(density_of(table, scientific_name), dbh)
    ELSE 0

\* kobo_integration.calculate_co2_sequestration and its copy in
\* kobo_monitoring; query_ok = FALSE is the SELECT raising, which returns 0.0
calculate_co2_sequestration(table, scientific_name, rcd, dbh, query_ok) ==
    IF ~query_ok THEN 0
    ELSE IF dbh # None /\ dbh > 0 THEN DbhEquation(density_of(table, scientific_name), dbh)
    ELSE IF rcd # None /\ rcd > 0 THEN RcdEquation(rcd)
    ELSE 0

\* ------------------------------------------------------------- the store
TreeIds(table) == {r.tree_id : r \in Rows(table)}

\* number of rows of a table that satisfy Test
CountRows(table, Test(_)) == Len(SelectSeq(table, Test))

\* kobo_integration.is_submission_processed; query_ok = FALSE is the SELECT
\* raising sqlite3.OperationalError
is_submission_processed(submission_id, table, query_ok) ==
    IF submission_id = NoId THEN FALSE
    ELSE IF ~query_ok THEN FALSE
    ELSE \E r \in Rows(table) : r.kobo_submission_id = submission_id

\* kobo_monitoring.is_monitoring_submission_processed
is_monitoring_submission_processed(submission_id, pms, query_ok) ==
    IF submission_id = NoId THEN FALSE
    ELSE IF ~query_ok THEN FALSE
    ELSE \E r \in pms : r.submission_id = submission_id

\* kobo_integration.map_kobo_to_database: the mapped columns, or NoSub for None
map_kobo_to_database(sub) ==
    IF sub.null_institution THEN NoSub
    ELSE
      LET institution == Strip(sub.institution)
          local_name == Strip(sub.local_name)
      IN  IF institution = NoText \/ local_name = NoText THEN NoSub
          ELSE [institution |-> institution,
                local_name |-> local_name,
                scientific_name |-> Strip(sub.scientific_name),
                date_planted |-> sub.date_planted,
                tree_stage |-> sub.tree_stage,
                rcd_cm |-> sub.rcd_cm,
                dbh_cm |-> sub.dbh_cm,
                height_m |-> sub.height_m,
                status |-> "Alive",
                kobo_submission_id |-> sub.id]

\* submission_data.update({... "co2_kg": ...}) of save_tree_submission
WithEstimate(m, co2_kg) ==
    [f \in DOMAIN m \cup {"co2_kg"} |-> IF f = "co2_kg" THEN co2_kg ELSE m[f]]

\* mapped_data["match_info"] = {...} of check_for_new_submissions in debug mode
WithMatchInfo(m) ==
    [f \in DOMAIN m \cup {"match_info"} |-> IF f = "match_info" THEN "institution" ELSE m[f]]

\* INSERT INTO trees names every key of submission_data: match_info is a key
\* that trees has no column for
UnknownColumn(m) == "match_info" \in DOMAIN m

\* the trees row save_tree_submission inserts for mapped data m
TreeRow(m, tree_id) ==
    [tree_id |-> tree_id,
     institution |-> m.institution,
     scientific_name |-> m.scientific_name,
     kobo_submission_id |-> m.kobo_submission_id,
     status |-> m.status,
     tree_stage |-> m.tree_stage,
     rcd_cm |-> m.rcd_cm,
     dbh_cm |-> m.dbh_cm,
     height_m |-> m.height_m,
     co2_kg |-> m.co2_kg,
     qr_code |-> "generated",
     last_monitored |-> 0]

\* the first monitoring_history row save_tree_submission inserts
FirstHistoryRow(m, tree_id) ==
    [tree_id |-> tree_id,
     monitor_date |-> m.date_planted,
     monitor_status |-> "Alive",
     monitor_stage |-> m.tree_stage,
     rcd_cm |-> m.rcd_cm,
     dbh_cm |-> m.dbh_cm,
     height_m |-> m.height_m,
     co2_kg |-> m.co2_kg,
     notes |-> m.kobo_submission_id,
     kobo_submission_id |-> NoId]

\* INSERT INTO trees raises: an injected failure, or a PRIMARY KEY / UNIQUE
\* violation while the table still has its constraints
InsertTreeRaises(table, constrained, row, fault) ==
    \/ fault = "insert_tree"
    \/ /\ constrained
       /\ \E r \in Rows(table) :
             \/ r.tree_id = row.tree_id
             \/ /\ row.kobo_submission_id # NoId
                /\ r.kobo_submission_id = row.kobo_submission_id

SaveTreeFaults == {"none", "insert_tree", "insert_history", "commit"}

\* a save_tree_submission that keeps the trees row when a later statement
\* raises (no rollback)
save_tree_submission_no_rollback(table, hist, constrained, m, tree_id, fault) ==
    LET row == TreeRow(m, tree_id)
        t1 == Append(table, row)
        h1 == Append(hist, FirstHistoryRow(m, tree_id))
    IN  IF UnknownColumn(m) \/ InsertTreeRaises(table, constrained, row, fault)
        THEN [ok |-> FALSE, trees |-> table, history |-> hist]
        ELSE IF fault = "insert_history"
        THEN [ok |-> FALSE, trees |-> t1, history |-> hist]
        ELSE IF fault = "commit"
        THEN [ok |-> FALSE, trees |-> t1, history |-> h1]
        ELSE [ok |-> TRUE, trees |-> t1, history |-> h1]

\* kobo_integration.save_tree_submission from the connect on: both INSERTs
\* and the commit in one transaction, rolled back when a statement raises
save_tree_submission(table, hist, constrained, m, tree_id, fault) ==
    LET row == TreeRow(m, tree_id)
        t1 == Append(table, row)
        h1 == Append(hist, FirstHistoryRow(m, tree_id))
    IN  IF UnknownColumn(m) \/ InsertTreeRaises(table, constrained, row, fault)
        THEN [ok |-> FALSE, trees |-> table, history |-> hist]
        ELSE IF fault = "insert_history"
        THEN [ok |-> FALSE, trees |-> table, history |-> hist]
        ELSE IF fault = "commit"
        THEN [ok |-> FALSE, trees |-> table, history |-> hist]
        ELSE [ok |-> TRUE, trees |-> t1, history |-> h1]

\* kobo_monitoring.get_tree_details: the first row with that tree_id
\* (<<>> for None: no row, or the query raised)
get_tree_details(tree_id, table, query_ok) ==
    LET found == SelectSeq(table, LAMBDA r : r.tree_id = tree_id)
    IN  IF tree_id = NoText \/ ~query_ok \/ found = <<>> THEN <<>> ELSE <<found[1]>>

\* a mapping that copies the tree's co2_kg onto the event
map_monitoring_submission_copying_co2(sub, table, sp, query_ok, lookup_ok) ==
    LET tree_id == Strip(sub.tree_id)
        tree_data == get_tree_details(tree_id, table, query_ok)
    IN  IF tree_id = NoText \/ tree_data = <<>> THEN NoSub
        ELSE [tree_id |-> tree_id,
              monitor_date |-> sub.monitor_date,
              monitor_status |-> sub.tree_status,
              monitor_stage |-> IF sub.has_stage THEN sub.growth_stage
                                ELSE tree_data[1].tree_stage,
              rcd_cm |-> IF sub.has_rcd THEN sub.rcd_cm ELSE tree_data[1].rcd_cm,
              dbh_cm |-> IF sub.has_dbh THEN sub.dbh_cm ELSE tree_data[1].dbh_cm,
              height_m |-> IF sub.has_height THEN sub.height_m ELSE tree_data[1].height_m,
              kobo_submission_id |-> sub.id,
              co2_kg |-> tree_data[1].co2_kg]

\* kobo_monitoring.map_monitoring_submission_to_database against the trees
\* table and the species table sp
map_monitoring_submission_to_database(sub, table, sp, query_ok, lookup_ok) ==
    LET tree_id == Strip(sub.tree_id)
        tree_data == get_tree_details(tree_id, table, query_ok)
        rcd_cm == IF sub.has_rcd THEN sub.rcd_cm ELSE tree_data[1].rcd_cm
        dbh_cm == IF sub.has_dbh THEN sub.dbh_cm ELSE tree_data[1].dbh_cm
    IN  IF tree_id = NoText \/ tree_data = <<>> THEN NoSub
        ELSE [tree_id |-> tree_id,
              monitor_date |-> sub.monitor_date,
              monitor_status |-> sub.tree_status,
              monitor_stage |-> IF sub.has_stage THEN sub.growth_stage
                                ELSE tree_data[1].tree_stage,
              rcd_cm |-> rcd_cm,
              dbh_cm |-> dbh_cm,
              height_m |-> IF sub.has_height THEN sub.height_m ELSE tree_data[1].height_m,
              kobo_submission_id |-> sub.id,
              co2_kg |-> calculate_co2_sequestration(
                             sp, tree_data[1].scientific_name, rcd_cm, dbh_cm, lookup_ok)]

SaveMonitoringFaults ==
    {"none", "insert_history", "update_tree", "insert_processed", "commit"}

\* INSERT INTO monitoring_history (..., kobo_submission_id) raises
InsertMonitoringRaises(hist, schema, m, fault) ==
    \/ fault = "insert_history"
    \/ ~MhHasKoboColumn(schema)
    \/ /\ MhKoboUnique(schema)
       /\ \E r \in Rows(hist) : r.kobo_submission_id = m.kobo_submission_id

\* an UPDATE trees that also assigns the identifier column
UpdateTreeAssigningId(table, m) ==
    [i \in 1..Len(table) |->
        IF table[i].tree_id = m.tree_id
        THEN [table[i] EXCEPT !.tree_id = XXX001,
                              !.status = m.monitor_status,
                              !.last_monitored = m.monitor_date]
        ELSE table[i]]

\* UPDATE trees SET ... WHERE tree_id = ?
UpdateTree(table, m) ==
    [i \in 1..Len(table) |->
        IF table[i].tree_id = m.tree_id
        THEN [table[i] EXCEPT !.status = m.monitor_status,
                              !.tree_stage = m.monitor_stage,
                              !.rcd_cm = m.rcd_cm,
                              !.dbh_cm = m.dbh_cm,
                              !.height_m = m.height_m,
                              !.co2_kg = m.co2_kg,
                              !.last_monitored = m.monitor_date]
        ELSE table[i]]

\* a save_monitoring_submission that keeps only the newest event of the tree
save_monitoring_submission_replacing(table, hist, pms, schema, m, fault) ==
    LET h1 == Append(SelectSeq(hist, LAMBDA e : e.tree_id # m.tree_id),
                     [tree_id |-> m.tree_id,
                      monitor_date |-> m.monitor_date,
                      monitor_status |-> m.monitor_status,
                      monitor_stage |-> m.monitor_stage,
                      rcd_cm |-> m.rcd_cm,
                      dbh_cm |-> m.dbh_cm,
                      height_m |-> m.height_m,
                      co2_kg |-> m.co2_kg,
                      notes |-> NoId,
                      kobo_submission_id |-> m.kobo_submission_id])
        t1 == UpdateTree(table, m)
        p1 == pms \cup {[submission_id |-> m.kobo_submission_id, tree_id |-> m.tree_id]}
        rollback == [ok |-> FALSE, trees |-> table, history |-> hist, processed |-> pms]
    IN  IF InsertMonitoringRaises(hist, schema, m, fault) THEN rollback
        ELSE IF fault = "update_tree" THEN rollback
        ELSE IF \/ fault = "insert_processed"
                \/ \E r \in pms : r.submission_id = m.kobo_submission_id
        THEN rollback
        ELSE IF fault = "commit" THEN rollback
        ELSE [ok |-> TRUE, trees |-> t1, history |-> h1, processed |-> p1]

\* kobo_monitoring.save_monitoring_submission: INSERT monitoring_history,
\* UPDATE trees, INSERT processed_monitoring_submissions and the commit in one
\* transaction, rolled back when a statement raises
save_monitoring_submission(table, hist, pms, schema, m, fault) ==
    LET h1 == Append(hist, [tree_id |-> m.tree_id,
                            monitor_date |-> m.monitor_date,
                            monitor_status |-> m.monitor_status,
                            monitor_stage |-> m.monitor_stage,
                            rcd_cm |-> m.rcd_cm,
                            dbh_cm |-> m.dbh_cm,
                            height_m |-> m.height_m,
                            co2_kg |-> m.co2_kg,
                            notes |-> NoId,
                            kobo_submission_id |-> m.kobo_submission_id])
        t1 == UpdateTree(table, m)
        p1 == pms \cup {[submission_id |-> m.kobo_submission_id, tree_id |-> m.tree_id]}
        rollback == [ok |-> FALSE, trees |-> table, history |-> hist, processed |-> pms]
    IN  IF InsertMonitoringRaises(hist, schema, m, fault) THEN rollback
        ELSE IF fault = "update_tree" THEN rollback
        ELSE IF \/ fault = "insert_processed"
                \/ \E r \in pms : r.submission_id = m.kobo_submission_id
        THEN rollback
        ELSE IF fault = "commit" THEN rollback
        ELSE [ok |-> TRUE, trees |-> t1, history |-> h1, processed |-> p1]

\* ------------------------------------------------------------------- Init
IdlePoll ==
    /\ pc = [p \in Sessions |-> "idle"]
    /\ inst = [p \in Sessions |-> NoText]
    /\ cur = [p \in Sessions |-> NoSub]
    /\ tid = [p \in Sessions |-> NoText]
    /\ results = [p \in Sessions |-> <<>>]

NoGen ==
    /\ gen_org = NoText
    /\ gen_table = <<>>
    /\ gen_out = NoText
    /\ gen_scan_ok = TRUE
    /\ gen_app_out = NoText

\* no call of the estimator has been made
NoEstimate ==
    /\ est_in = [species |-> <<>>, scientific_name |-> NoText, rcd |-> 0, dbh |-> 0,
                 query_ok |-> TRUE]
    /\ est_out = <<>>

\* An empty database on which the initializers have run in some order. trees
\* ends with PRIMARY KEY and UNIQUE whichever runs first (kobo_integration
\* migrates a trees table that lacks kobo_submission_id).
Init ==
    /\ trees = <<>>
    /\ treesConstrained = TRUE
    /\ mhSchema \in Initializers
    /\ history = <<>>
    /\ processed = {}
    /\ IdlePoll
    /\ NoGen
    /\ species = DefaultSpecies
    /\ frame = <<>>
    /\ NoEstimate

\* ----------------------------------------------------- planting: the poll
Reset(p) ==
    /\ cur' = [cur EXCEPT ![p] = NoSub]
    /\ tid' = [tid EXCEPT ![p] = NoText]

\* check_for_new_submissions up to the loop: ensure_institution_assigned
StartPoll(p, institution) ==
    /\ pc[p] = "idle"
    /\ pc' = [pc EXCEPT ![p] = "loop"]
    /\ inst' = [inst EXCEPT ![p] = institution]
    /\ results' = [results EXCEPT ![p] = <<>>]
    /\ UNCHANGED <<cur, tid, storeVars, genVars, adminVars, estVars>>

\* the poll is left by an exception or by its return
LeavePoll(p) ==
    /\ pc' = [pc EXCEPT ![p] = "idle"]
    /\ inst' = [inst EXCEPT ![p] = NoText]
    /\ results' = [results EXCEPT ![p] = <<>>]
    /\ Reset(p)

\* one iteration of the loop of check_for_new_submissions on sub, up to the
\* call of save_tree_submission
CheckSub(p, sub, query_ok) ==
    /\ pc[p] = "loop"
    /\ UNCHANGED <<storeVars, genVars, adminVars, estVars>>
    /\ IF sub.id = NoId THEN UNCHANGED pollVars
       ELSE IF is_submission_processed(sub.id, trees, query_ok) THEN UNCHANGED pollVars
       ELSE IF sub.null_institution THEN LeavePoll(p)
       ELSE IF Strip(sub.institution) = NoText THEN UNCHANGED pollVars
       ELSE IF Lower(Strip(sub.institution)) # Lower(inst[p]) THEN UNCHANGED pollVars
       ELSE IF map_kobo_to_database(sub) = NoSub THEN UNCHANGED pollVars
       ELSE /\ pc' = [pc EXCEPT ![p] = "checked"]
            /\ cur' = [cur EXCEPT ![p] = map_kobo_to_database(sub)]
            /\ UNCHANGED <<inst, tid, results>>

\* the same iteration with session_state.debug_mode set: match_info is added to
\* the mapped data before save_tree_submission is called
CheckSubDebug(p, sub, query_ok) ==
    /\ pc[p] = "loop"
    /\ UNCHANGED <<storeVars, genVars, adminVars, estVars>>
    /\ IF sub.id = NoId THEN UNCHANGED pollVars
       ELSE IF is_submission_processed(sub.id, trees, query_ok) THEN UNCHANGED pollVars
       ELSE IF sub.null_institution THEN LeavePoll(p)
       ELSE IF Strip(sub.institution) = NoText THEN UNCHANGED pollVars
       ELSE IF Lower(Strip(sub.institution)) # Lower(inst[p]) THEN UNCHANGED pollVars
       ELSE IF map_kobo_to_database(sub) = NoSub THEN UNCHANGED pollVars
       ELSE /\ pc' = [pc EXCEPT ![p] = "checked"]
            /\ cur' = [cur EXCEPT ![p] = WithMatchInfo(map_kobo_to_database(sub))]
            /\ UNCHANGED <<inst, tid, results>>

\* save_tree_submission up to the connect: generate_tree_id, generate_qr_code
\* and the estimate (lookup_ok: the SELECT on species succeeds)
GenerateId(p, scan_ok, now, qr_ok, lookup_ok) ==
    /\ pc[p] = "checked"
    /\ IntOf(TrailingDigits(generate_tree_id(cur[p].institution, trees, scan_ok, now)))
         <= MaxSeqNo
    /\ UNCHANGED <<storeVars, genVars, adminVars, estVars, inst, results>>
    /\ IF qr_ok
       THEN /\ pc' = [pc EXCEPT ![p] = "generated"]
            /\ tid' = [tid EXCEPT ![p] =
                          generate_tree_id(cur[p].institution, trees, scan_ok, now)]
            /\ cur' = [cur EXCEPT ![p] =
                          WithEstimate(cur[p],
                              calculate_co2_sequestration(species, cur[p].scientific_name,
                                  cur[p].rcd_cm, cur[p].dbh_cm, lookup_ok))]
       ELSE /\ pc' = [pc EXCEPT ![p] = "loop"]
            /\ Reset(p)

\* save_tree_submission from the connect on, and the results.append
SaveTree(p, fault) ==
    /\ pc[p] = "generated"
    /\ Len(trees) < MaxTrees
    /\ Len(history) < MaxHistory
    /\ Len(results[p]) < MaxResults
    /\ LET r == save_tree_submission(trees, history, treesConstrained, cur[p], tid[p], fault)
       IN  /\ trees' = r.trees
           /\ history' = r.history
           /\ results' = [results EXCEPT ![p] =
                            IF r.ok THEN Append(results[p], tid[p]) ELSE results[p]]
    /\ pc' = [pc EXCEPT ![p] = "loop"]
    /\ Reset(p)
    /\ UNCHANGED <<treesConstrained, mhSchema, processed, inst, genVars, adminVars, estVars>>

\* check_for_new_submissions returns results
EndPoll(p) ==
    /\ pc[p] \in {"loop", "mloop"}
    /\ LeavePoll(p)
    /\ UNCHANGED <<storeVars, genVars, adminVars, estVars>>

\* --------------------------------------------------- monitoring: the poll
StartMonitoringPoll(p, institution) ==
    /\ pc[p] = "idle"
    /\ pc' = [pc EXCEPT ![p] = "mloop"]
    /\ inst' = [inst EXCEPT ![p] = institution]
    /\ results' = [results EXCEPT ![p] = <<>>]
    /\ UNCHANGED <<cur, tid, storeVars, genVars, adminVars, estVars>>

\* one iteration of the loop of check_for_new_monitoring_submissions on sub, up
\* to the call of save_monitoring_submission (check_ok: the SELECT of
\* is_monitoring_submission_processed succeeds; query_ok: those of
\* get_tree_details do; lookup_ok: the one on species does)
CheckMonitoringSub(p, sub, check_ok, query_ok, lookup_ok) ==
    /\ pc[p] = "mloop"
    /\ UNCHANGED <<storeVars, genVars, adminVars, estVars>>
    /\ LET tree_id == Strip(sub.tree_id)
           tree_data == get_tree_details(tree_id, trees, query_ok)
           mapped == map_monitoring_submission_to_database(sub, trees, species,
                                                            query_ok, lookup_ok)
       IN  IF sub.id = NoId THEN UNCHANGED pollVars
           ELSE IF is_monitoring_submission_processed(sub.id, processed, check_ok)
                THEN UNCHANGED pollVars
           ELSE IF tree_id = NoText THEN UNCHANGED pollVars
           ELSE IF tree_data = <<>> THEN UNCHANGED pollVars
           ELSE IF Lower(Strip(tree_data[1].institution)) # Lower(inst[p])
                THEN UNCHANGED pollVars
           ELSE IF mapped = NoSub THEN UNCHANGED pollVars
           ELSE /\ pc' = [pc EXCEPT ![p] = "mmapped"]
                /\ cur' = [cur EXCEPT ![p] = mapped]
                /\ UNCHANGED <<inst, tid, results>>

\* save_monitoring_submission, and the results.append
SaveMonitoring(p, fault) ==
    /\ pc[p] = "mmapped"
    /\ Len(history) < MaxHistory
    /\ Len(results[p]) < MaxResults
    /\ LET r == save_monitoring_submission(trees, history, processed, mhSchema, cur[p], fault)
       IN  /\ trees' = r.trees
           /\ history' = r.history
           /\ processed' = r.processed
           /\ results' = [results EXCEPT ![p] =
                            IF r.ok THEN Append(results[p], cur[p].tree_id) ELSE results[p]]
    /\ pc' = [pc EXCEPT ![p] = "mloop"]
    /\ Reset(p)
    /\ UNCHANGED <<treesConstrained, mhSchema, inst, genVars, adminVars, estVars>>

\* ------------------------------------------------------------------ admin
\* admin_dashboard "Update Tree": load_tree_data, the edit, save_tree_data
\* (DataFrame.to_sql(if_exists="replace") recreates trees without constraints)
AdminUpdateTree(tree_id, status) ==
    /\ tree_id \in TreeIds(trees)
    /\ trees' = [i \in 1..Len(trees) |->
                    IF trees[i].tree_id = tree_id
                    THEN [trees[i] EXCEPT !.status = status]
                    ELSE trees[i]]
    /\ treesConstrained' = FALSE
    /\ UNCHANGED <<mhSchema, history, processed, pollVars, genVars, adminVars, estVars>>

\* admin_dashboard renders "Manage Trees": trees = load_tree_data()
LoadTrees ==
    /\ frame # trees
    /\ frame' = trees
    /\ UNCHANGED <<storeVars, pollVars, genVars, species, estVars>>

\* "Update Tree" is submitted on the DataFrame loaded by the last render: the
\* two assignments on the row of tree_id, save_tree_data(trees), and the
\* st.rerun() that loads the table again
SaveTrees(tree_id, scientific_name, status) ==
    /\ tree_id \in TreeIds(frame)
    /\ trees' = [i \in 1..Len(frame) |->
                    IF frame[i].tree_id = tree_id
                    THEN [frame[i] EXCEPT !.scientific_name = scientific_name,
                                          !.status = status]
                    ELSE frame[i]]
    /\ treesConstrained' = FALSE
    /\ frame' = trees'
    /\ UNCHANGED <<mhSchema, history, processed, pollVars, genVars, species, estVars>>

\* admin_tree_lookup "Generate/Regenerate QR Code": UPDATE trees SET qr_code
RegenerateQr(tree_id) ==
    /\ tree_id \in TreeIds(trees)
    /\ trees' = [i \in 1..Len(trees) |->
                    IF trees[i].tree_id = tree_id
                    THEN [trees[i] EXCEPT !.qr_code = "regenerated"]
                    ELSE trees[i]]
    /\ UNCHANGED <<treesConstrained, mhSchema, history, processed, pollVars,
                   genVars, adminVars, estVars>>

\* "Add Species": refused when a row has that scientific name in any case,
\* else the row is appended and the table saved
AddSpecies(scientific_name, wood_density) ==
    /\ \A r \in Rows(species) : Lower(r.scientific_name) # Lower(scientific_name)
    /\ species' = Append(species, [scientific_name |-> scientific_name,
                                   wood_density |-> wood_density])
    /\ UNCHANGED <<storeVars, pollVars, genVars, frame, estVars>>

\* "Import Species" of a one-row CSV: concat,
\* drop_duplicates(subset=["scientific_name"], keep="last"), save
ImportSpecies(scientific_name, wood_density) ==
    /\ species' = Append(SelectSeq(species, LAMBDA r : r.scientific_name # scientific_name),
                         [scientific_name |-> scientific_name,
                          wood_density |-> wood_density])
    /\ species' # species
    /\ UNCHANGED <<storeVars, pollVars, genVars, frame, estVars>>

\* landing page "Reset Database": the file is unlinked and init_db recreates
\* every table
ResetDatabase ==
    /\ trees' = <<>>
    /\ treesConstrained' = TRUE
    /\ mhSchema' = "app"
    /\ history' = <<>>
    /\ processed' = {}
    /\ species' = DefaultSpecies
    /\ UNCHANGED <<pollVars, genVars, frame, estVars>>

\* ------------------------------------------------------------------- Next
\* what one session may do next, for the users that may be logged in and the
\* submissions the two KoBo feeds may hold; with failures, a query, the scan,
\* the QR code or a statement of a save may fail (the species table is read
\* without failure); when serial, a poll starts only while no other session
\* is in one
Outcomes(failures) == IF failures THEN BOOLEAN ELSE {TRUE}
TreeFaults(failures) == IF failures THEN SaveTreeFaults ELSE {"none"}
MonitoringFaults(failures) == IF failures THEN SaveMonitoringFaults ELSE {"none"}

\* no other session is in a poll
Alone(p) == \A q \in Sessions \ {p} : pc[q] = "idle"

SessionStep(p, users, pfeed, mfeed, failures, serial) ==
    \/ \E i \in users : (serial => Alone(p)) /\ StartPoll(p, i)
    \/ \E sub \in pfeed, ok \in Outcomes(failures) : CheckSub(p, sub, ok)
    \/ \E ok \in Outcomes(failures), now \in ClockValues, qr \in Outcomes(failures) :
          GenerateId(p, ok, now, qr, TRUE)
    \/ \E f \in TreeFaults(failures) : SaveTree(p, f)
    \/ \E i \in users : (serial => Alone(p)) /\ StartMonitoringPoll(p, i)
    \/ \E sub \in mfeed, ck \in Outcomes(failures), ok \in Outcomes(failures) :
          CheckMonitoringSub(p, sub, ck, ok, TRUE)
    \/ \E f \in MonitoringFaults(failures) : SaveMonitoring(p, f)
    \/ EndPoll(p)

\* the admin dashboard's "Update Tree" on any tree of the table
AdminUpdate == \E t \in TreeIds(trees), s \in AdminStatuses : AdminUpdateTree(t, s)

\* Spec: one poll at a time (a poll starts when no other session is polling),
\* every user and both feeds in full, any access to the store failing, the
\* admin updating a tree or resetting the database at any moment
Next ==
    \/ \E p \in Sessions :
          SessionStep(p, UserInstitutions, PlantingFeed, MonitoringFeed, TRUE, TRUE)
    \/ AdminUpdate
    \/ ResetDatabase

Spec == Init /\ [][Next]_vars

\* SpecRace: the two sessions interleave at every access to the store, as
\* users of one institution polling the submissions of RacePlantingFeed and
\* RaceMonitoringFeed with no failure of the store, the admin updating trees
\* meanwhile
RaceUsers == {Green}
RacePlantingFeed == {sub \in PlantingFeed : sub.id \in {1, 3}}
RaceMonitoringFeed == {sub \in MonitoringFeed : sub.id \in {11}}

NextRace ==
    \/ \E p \in Sessions : SessionStep(p, RaceUsers, RacePlantingFeed, RaceMonitoringFeed, FALSE, FALSE)
    \/ AdminUpdate

SpecRace == Init /\ [][NextRace]_vars

\* ------------------------------------------------------------- SpecCarbon
\* SpecCarbon: the estimate through a tree's life. One session polls with no
\* failure of the store, on submissions that carry trunk sizes;
\* the admin meanwhile renders "Manage Trees" and submits "Update Tree",
\* regenerates QR codes, adds a species and imports species from CSV.
Teak == <<"T","e","a","k">>
GRE002 == <<"G","R","E","0","0","2">>

CarbonPlantingFeed ==
    { [id |-> i, institution |-> Green, null_institution |-> FALSE, local_name |-> Oak,
       scientific_name |-> n, tree_stage |-> "Seedling",
       date_planted |-> 1, rcd_cm |-> r, dbh_cm |-> d, height_m |-> 5] :
         <<i, n, r, d>> \in {<<21, Acacia, 10, 40>>, <<22, Teak, 40, 0>>} }

CarbonMonitoringFeed ==
    { [id |-> i, tree_id |-> GRE001, tree_status |-> st, has_rcd |-> hr, rcd_cm |-> r,
       has_dbh |-> hd, dbh_cm |-> d, has_height |-> TRUE, height_m |-> h,
       has_stage |-> TRUE, growth_stage |-> g, monitor_date |-> dt] :
         <<i, st, hr, r, hd, d, h, g, dt>> \in
            { <<31, "Dead", TRUE, 40, TRUE, 40, 20, "Young", 3>>,
              <<32, "Alive", FALSE, 0, TRUE, 10, 10, "Sapling", 2>> } }

\* what the admin may type as scientific name in "Update Tree"
AdminScientificNames == {Teak}
\* what "Add Species" accepts: a name and a density of 0.1 to 1.5
FormSpecies == {<<Teak, 10>>}
\* rows of an imported CSV: any number is taken as wood_density
CsvSpecies == {<<Acacia, -50>>}

\* a database whose monitoring_history kobo_monitoring created
InitCarbon == Init /\ mhSchema = "kobo_monitoring"

NextCarbon ==
    \/ SessionStep(1, RaceUsers, CarbonPlantingFeed, CarbonMonitoringFeed, FALSE, TRUE)
    \/ LoadTrees
    \/ \E t \in TreeIds(frame), n \in AdminScientificNames, s \in AdminStatuses :
          SaveTrees(t, n, s)
    \/ \E t \in TreeIds(trees) : RegenerateQr(t)
    \/ \E sp \in FormSpecies : AddSpecies(sp[1], sp[2])
    \/ \E sp \in CsvSpecies : ImportSpecies(sp[1], sp[2])

SpecCarbon == InitCarbon /\ [][NextCarbon]_vars

\* ----------------------------------------------------------- SpecEstimate
\* calculate_co2_sequestration as a function of the species table, the
\* scientific name and the two trunk sizes: one call on every name of
\* EstNames and every pair of Measures against every species table of at most
\* MaxSpeciesRows rows of EstSpeciesRows, the SELECT succeeding or raising.
MaxSpeciesRows == 2
Measures == {None, -10, 0, 1, 2, 10, 32, 40, 100}
EstNames == {Acacia, Teak, Unknown}
EstSpeciesRows ==
    { [scientific_name |-> Acacia, wood_density |-> 65],
      [scientific_name |-> Acacia, wood_density |-> 150],
      [scientific_name |-> Teak, wood_density |-> 10],
      [scientific_name |-> Teak, wood_density |-> -50],
      [scientific_name |-> Teak, wood_density |-> None] }
EstSpeciesTables == UNION {[1..n -> EstSpeciesRows] : n \in 0..MaxSpeciesRows}

InitEstimate ==
    /\ trees = <<>>
    /\ treesConstrained = TRUE
    /\ mhSchema = "app"
    /\ history = <<>>
    /\ processed = {}
    /\ IdlePoll
    /\ NoGen
    /\ species = DefaultSpecies
    /\ frame = <<>>
    /\ est_in \in [species : EstSpeciesTables, scientific_name : EstNames,
                    rcd : Measures, dbh : Measures, query_ok : BOOLEAN]
    /\ est_out = <<>>

\* one call of calculate_co2_sequestration and one of app.calculate_co2 with the
\* same arguments on the same store
Estimate ==
    /\ est_out = <<>>
    /\ est_out' = <<calculate_co2_sequestration(est_in.species, est_in.scientific_name,
                                                est_in.rcd, est_in.dbh, est_in.query_ok),
                    calculate_co2(est_in.species, est_in.scientific_name,
                                  est_in.rcd, est_in.dbh, est_in.query_ok)>>
    /\ UNCHANGED <<storeVars, pollVars, genVars, adminVars, est_in>>

NextEstimate == Estimate

SpecEstimate == InitEstimate /\ [][NextEstimate]_vars

\* ---------------------------------------------------------------- SpecGen
\* generate_tree_id as a function of the organization name and of the trees
\* table it scans: one call of each implementation on every name of OrgNames
\* against every table of at most MaxGenRows rows of GenRows.
AB == <<"A","B">>
Ecol == <<"É","c","o","l">>
Digits12 == <<"1","2">>
TestI == <<"T","e","s","t"," ","I">>
OrgNames == {Green, GreenLc, Grey, AB, Ecol, Digits12, NoText, TestI}

GenRows ==
    { [tree_id |-> <<"G","R","E","0","0","1">>, institution |-> Green],
      [tree_id |-> <<"G","R","E","0","0","2">>, institution |-> Green],
      [tree_id |-> <<"G","R","E","0","0","5">>, institution |-> Green],
      [tree_id |-> <<"G","R","E","9","9","9">>, institution |-> Green],
      [tree_id |-> <<"G","R","E","X">>, institution |-> Green],
      [tree_id |-> <<"G","R","E","0","0","3">>, institution |-> Grey],
      [tree_id |-> <<"T","E","S","T","0","0","1">>, institution |-> TestI],
      [tree_id |-> <<"T","E","S","T","0","0","2">>, institution |-> TestI],
      [tree_id |-> <<"A","B","0","0","1">>, institution |-> AB] }

GenTables == UNION {[1..n -> GenRows] : n \in 0..MaxGenRows}

InitGen ==
    /\ trees = <<>>
    /\ treesConstrained = TRUE
    /\ mhSchema = "app"
    /\ history = <<>>
    /\ processed = {}
    /\ IdlePoll
    /\ gen_org \in OrgNames
    /\ gen_table \in GenTables
    /\ gen_out = NoText
    /\ gen_scan_ok = TRUE
    /\ gen_app_out = NoText
    /\ species = DefaultSpecies
    /\ frame = <<>>
    /\ NoEstimate

\* one call of kobo_integration.generate_tree_id
Generate(scan_ok, now) ==
    /\ gen_out = NoText
    /\ gen_out' = generate_tree_id(gen_org, gen_table, scan_ok, now)
    /\ gen_scan_ok' = scan_ok
    /\ UNCHANGED <<storeVars, pollVars, adminVars, estVars, gen_org, gen_table, gen_app_out>>

\* one call of app.generate_tree_id
AppGenerate ==
    /\ gen_app_out = NoText
    /\ gen_app_out' = app_generate_tree_id(gen_org, gen_table)
    /\ UNCHANGED <<storeVars, pollVars, adminVars, estVars, gen_org, gen_table, gen_out, gen_scan_ok>>

NextGen ==
    \/ \E scan_ok \in BOOLEAN, now \in ClockValues : Generate(scan_ok, now)
    \/ AppGenerate

SpecGen == InitGen /\ [][NextGen]_vars

\* SpecProgress: users of two organizations poll the planting feed again and
\* again, one poll at a time; the scan of generate_tree_id, the QR code and the
\* statements of save_tree_submission may fail, and the admin may update a tree
\* at any moment. A poll that has started runs on, every poll walks the whole
\* feed, every user polls again and again, and the store is available again
\* and again; nothing makes a failure happen or the admin act.
ProgressUsers == {Green, Grey}
ProgressFeed == {sub \in PlantingFeed : sub.id \in {2, 4}}

InitProgress == Init /\ mhSchema = "app"

NextProgress ==
    \/ \E p \in Sessions :
          \/ \E i \in ProgressUsers : Alone(p) /\ StartPoll(p, i)
          \/ \E sub \in ProgressFeed : CheckSub(p, sub, TRUE)
          \/ \E ok \in BOOLEAN, now \in ClockValues, qr \in BOOLEAN :
                GenerateId(p, ok, now, qr, TRUE)
          \/ \E f \in SaveTreeFaults : SaveTree(p, f)
          \/ EndPoll(p)
    \/ AdminUpdate

FairPolling ==
    \A p \in Sessions :
        /\ \A i \in ProgressUsers : SF_vars(Alone(p) /\ StartPoll(p, i))
        /\ \A sub \in ProgressFeed : SF_vars(CheckSub(p, sub, TRUE))
        /\ SF_vars(\E now \in ClockValues : GenerateId(p, TRUE, now, TRUE, TRUE))
        /\ SF_vars(SaveTree(p, "none"))
        /\ SF_vars(EndPoll(p))

SpecProgress == InitProgress /\ [][NextProgress]_vars /\ FairPolling

\* SpecDebug: users of two organizations poll the planting feed, one poll at a
\* time, with the store available, each iteration with debug_mode set or not
DebugUsers == {Green, Grey}
DebugFeed == {sub \in PlantingFeed : sub.id \in {1, 3, 4}}

NextDebug ==
    \E p \in Sessions :
        \/ \E i \in DebugUsers : Alone(p) /\ StartPoll(p, i)
        \/ \E sub \in DebugFeed : CheckSub(p, sub, TRUE)
        \/ \E sub \in DebugFeed : CheckSubDebug(p, sub, TRUE)
        \/ \E now \in ClockValues : GenerateId(p, TRUE, now, TRUE, TRUE)
        \/ SaveTree(p, "none")
        \/ EndPoll(p)

SpecDebug == InitProgress /\ [][NextDebug]_vars

\* ------------------------------------------------------------ properties
\* number of rows of a table carrying the external submission id
RowsOfSubmission(table, id) ==
    Cardinality({i \in 1..Len(table) : table[i].kobo_submission_id = id})

\* an identifier built from the scan: prefix and a SeqWidth-digit number
\* (the time-based one carries FallbackWidth digits)
Sequential(id) == Len(TrailingDigits(id)) = SeqWidth

\* C1: planting ingestion is idempotent under sequential re-delivery: once a
\* submission with a non-empty _id has been processed by save_tree_submission
\* with no failure of the store (the scan of generate_tree_id included),
\* exactly one trees row carries its kobo_submission_id, however often it has
\* been processed before.
C1_PlantingIdempotent ==
    [][\A p \in Sessions :
          (SaveTree(p, "none") /\ Sequential(tid[p])) =>
              RowsOfSubmission(trees', cur[p].kobo_submission_id) = 1]_vars

\* C2: whatever the interleaving of two pollers, the store never holds two
\* trees rows, nor two monitoring_history rows, for one external submission id.
C2_NoDuplicateRecords ==
    /\ \A i, j \in 1..Len(trees) :
          (i # j /\ trees[i].kobo_submission_id # NoId)
              => trees[i].kobo_submission_id # trees[j].kobo_submission_id
    /\ \A i, j \in 1..Len(history) :
          (i # j /\ history[i].kobo_submission_id # NoId)
              => history[i].kobo_submission_id # history[j].kobo_submission_id

\* C3: the identifier generate_tree_id returns from its scan is not the
\* tree_id of a tree already in the store, whichever organizations own the
\* stored trees.
C3_CollisionFree ==
    \A p \in Sessions :
        (pc[p] = "generated" /\ Sequential(tid[p])) => tid[p] \notin TreeIds(trees)

\* C4: two racing planting ingestions are never handed the same identifier,
\* and no two trees rows share a tree_id.
C4_SerializedGeneration ==
    /\ \A p, q \in Sessions :
          (p # q /\ pc[p] = "generated" /\ pc[q] = "generated") => tid[p] # tid[q]
    /\ \A i, j \in 1..Len(trees) : i # j => trees[i].tree_id # trees[j].tree_id

\* C5: monitoring ingestion is idempotent under sequential re-delivery: once a
\* monitoring submission has been processed by save_monitoring_submission with
\* no failure of the store, exactly one monitoring_history row and one
\* processed_monitoring_submissions entry carry its id.
C5_MonitoringIdempotent ==
    [][\A p \in Sessions :
          SaveMonitoring(p, "none") =>
              /\ RowsOfSubmission(history', cur[p].kobo_submission_id) = 1
              /\ Cardinality({e \in processed' :
                                e.submission_id = cur[p].kobo_submission_id}) = 1]_vars

\* C6: a save is all-or-nothing. save_tree_submission either appends the trees
\* row and its first monitoring_history row and reports the identifier, or
\* leaves both tables as they were and reports nothing;
\* save_monitoring_submission either appends the monitoring_history row,
\* updates the tree and records the processed submission, and reports the
\* tree, or leaves the three tables as they were and reports nothing.
C6_AllOrNothing ==
    [][\A p \in Sessions :
          /\ (\E f \in SaveTreeFaults : SaveTree(p, f)) =>
                \/ /\ trees' = trees
                   /\ history' = history
                   /\ results'[p] = results[p]
                \/ /\ Len(trees') = Len(trees) + 1
                   /\ SubSeq(trees', 1, Len(trees)) = trees
                   /\ trees'[Len(trees')].tree_id = tid[p]
                   /\ trees'[Len(trees')].kobo_submission_id = cur[p].kobo_submission_id
                   /\ Len(history') = Len(history) + 1
                   /\ SubSeq(history', 1, Len(history)) = history
                   /\ history'[Len(history')].tree_id = tid[p]
                   /\ results'[p] = Append(results[p], tid[p])
          /\ (\E f \in SaveMonitoringFaults : SaveMonitoring(p, f)) =>
                \/ /\ trees' = trees
                   /\ history' = history
                   /\ processed' = processed
                   /\ results'[p] = results[p]
                \/ /\ Len(history') = Len(history) + 1
                   /\ SubSeq(history', 1, Len(history)) = history
                   /\ history'[Len(history')].kobo_submission_id = cur[p].kobo_submission_id
                   /\ \A i \in 1..Len(trees) :
                         trees[i].tree_id = cur[p].tree_id =>
                             /\ trees'[i].status = cur[p].monitor_status
                             /\ trees'[i].last_monitored = cur[p].monitor_date
                   /\ Cardinality(processed') = Cardinality(processed) + 1
                   /\ \E e \in processed' : e.submission_id = cur[p].kobo_submission_id
                   /\ results'[p] = Append(results[p], cur[p].tree_id)]_vars

\* a running poll has reported a tree while both kinds of save have committed
C6_Witness ==
    \E p \in Sessions :
        /\ results[p] # <<>>
        /\ processed # {}
        /\ \E i \in 1..Len(history) : history[i].kobo_submission_id # NoId
        /\ \E i \in 1..Len(trees) : trees[i].last_monitored # 0

\* the organization's identifiers of gen_table that start with its prefix
GenOrgIds ==
    {r.tree_id : r \in {x \in Rows(gen_table) :
                          /\ x.institution = gen_org
                          /\ StartsWith(x.tree_id, org_prefix(gen_org))}}

\* the largest trailing number among them, 0 when there is none
GenMaxSuffix ==
    LET nums == {IntOf(TrailingDigits(id)) : id \in GenOrgIds} \cup {0}
    IN  CHOOSE m \in nums : \A n \in nums : n <= m

\* what follows the prefix in the generated identifier
GenSuffix == SubSeq(gen_out, Len(org_prefix(gen_org)) + 1, Len(gen_out))

\* C7: when its scan succeeds, generate_tree_id returns the prefix followed by
\* 001 if the organization has no identifier starting with the prefix, and
\* otherwise by the largest trailing number among those identifiers plus one,
\* in decimal, zero-padded to three digits.
C7_NextIdentifier ==
    (gen_out # NoText /\ gen_scan_ok) =>
        /\ StartsWith(gen_out, org_prefix(gen_org))
        /\ \A i \in 1..Len(GenSuffix) : GenSuffix[i] \in DigitChars
        /\ IntOf(GenSuffix) = GenMaxSuffix + 1
        /\ Len(GenSuffix) >= 3
        /\ Len(GenSuffix) > 3 => GenSuffix[1] # "0"
        /\ GenOrgIds = {} => GenSuffix = <<"0","0","1">>

\* "Test I..." owning TEST001 and TEST002 is handed TES003
C7_Witness ==
    /\ gen_org = TestI
    /\ GenMaxSuffix = 2
    /\ gen_scan_ok
    /\ gen_out = <<"T","E","S","0","0","3">>

\* the prefix as specified: the upper-cased name without its non-alphabetic
\* characters, cut to three, TRE when nothing is left
Alphabetic == AsciiUpper \cup {"É"}
SpecifiedPrefix(name) ==
    LET letters == Take(SelectSeq(Upper(name), LAMBDA c : c \in Alphabetic), 3)
    IN  IF letters = <<>> THEN TRE ELSE letters

\* C8: the identifier (here: one built from a successful scan) starts with the
\* upper-cased organization name stripped of its non-alphabetic characters and
\* cut to three characters (TRE when none is left), for names with non-ASCII
\* letters too, and digits follow.
C8_Prefix ==
    (gen_out # NoText /\ gen_scan_ok) =>
        /\ StartsWith(gen_out, SpecifiedPrefix(gen_org))
        /\ \A i \in (Len(SpecifiedPrefix(gen_org)) + 1)..Len(gen_out) :
              gen_out[i] \in DigitChars

\* C9: every identifier generate_tree_id returns (here: from a successful
\* scan) is three letters followed by three digits, six characters in all.
C9_Format ==
    (gen_out # NoText /\ gen_scan_ok) =>
        /\ Len(gen_out) = 6
        /\ \A i \in 1..3 : gen_out[i] \in Alphabetic
        /\ \A i \in 4..6 : gen_out[i] \in DigitChars

\* C10: when generations and their inserts do not interleave, the trees of an
\* organization whose identifiers start with its prefix carry the numbers
\* 1, 2, 3, ... with no gap and no repeat, whatever succeeded or failed before.
C10_Contiguous ==
    \A r \in Rows(trees) :
        LET mine == {i \in 1..Len(trees) :
                        /\ trees[i].institution = r.institution
                        /\ StartsWith(trees[i].tree_id, org_prefix(r.institution))}
            nums == {IntOf(TrailingDigits(trees[i].tree_id)) : i \in mine}
        IN  nums = 1..Cardinality(mine)

\* C11: when the scan of generate_tree_id fails, the ingestion of that
\* submission fails: no identifier is handed on to the INSERT, and no stored
\* tree ever carries an identifier made from the clock.
C11_NoFallbackIdentifier ==
    /\ [][\A p \in Sessions : \A now \in ClockValues : \A qr_ok \in BOOLEAN :
             \A lookup_ok \in BOOLEAN : GenerateId(p, FALSE, now, qr_ok, lookup_ok) =>
                 (pc'[p] = "loop" /\ tid'[p] = NoText)]_vars
    /\ [](\A r \in Rows(trees) : \A now \in ClockValues :
             r.tree_id # org_prefix(r.institution)
                             \o FormatD(now % FallbackMod, FallbackWidth))

\* C12: is_submission_processed and is_monitoring_submission_processed answer
\* true exactly when the store holds a record of the submission id, whether
\* or not their query succeeds.
C12_ProcessedIffRecorded ==
    /\ \A sub \in PlantingFeed : \A query_ok \in BOOLEAN :
          sub.id # NoId =>
              (is_submission_processed(sub.id, trees, query_ok)
                  <=> RowsOfSubmission(trees, sub.id) > 0)
    /\ \A sub \in MonitoringFeed : \A query_ok \in BOOLEAN :
          sub.id # NoId =>
              (is_monitoring_submission_processed(sub.id, processed, query_ok)
                  <=> \E e \in processed : e.submission_id = sub.id)

\* a planting submission whose institution or local_name is missing, empty
\* or null
Malformed(sub) ==
    \/ sub.null_institution
    \/ Strip(sub.institution) = NoText
    \/ Strip(sub.local_name) = NoText

\* C13: a malformed submission is skipped: the iteration on it creates no
\* record, reports nothing and leaves the poll in its loop, so that the other
\* submissions of the batch are still processed.
C13_ValidationSkip ==
    [][\A p \in Sessions : \A sub \in PlantingFeed : \A query_ok \in BOOLEAN :
          (Malformed(sub) /\ CheckSub(p, sub, query_ok)) =>
              /\ pc'[p] = "loop"
              /\ results'[p] = results[p]
              /\ UNCHANGED storeVars]_vars

\* the estimate the current species table gives a row of trees
CurrentEstimate(r) ==
    calculate_co2_sequestration(species, r.scientific_name, r.rcd_cm, r.dbh_cm, TRUE)

\* C14: in every reachable state, whatever planting ingestions, monitoring
\* ingestions, admin edits of a tree and edits of the species table came
\* before, each tree's stored co2_kg is the estimator applied to the density
\* of the tree's current scientific_name (0.6 if absent) and to its current
\* rcd_cm and dbh_cm.
C14_EstimateCurrent ==
    \A r \in Rows(trees) : r.co2_kg = CurrentEstimate(r)

\* C15: every co2_kg stored on a tree or on a monitoring event is
\* non-negative, for every content of the species table the admin's species
\* form and CSV import can produce and every trunk size.
C15_NonNegative ==
    /\ \A r \in Rows(trees) : r.co2_kg >= 0
    /\ \A e \in Rows(history) : e.co2_kg >= 0

\* the monitoring_history rows of a tree
EventsOf(hist, tree_id) == {e \in Rows(hist) : e.tree_id = tree_id}
\* the events of a tree observed last
LatestEvents(hist, tree_id) ==
    {e \in EventsOf(hist, tree_id) :
        \A f \in EventsOf(hist, tree_id) : f.monitor_date <= e.monitor_date}
\* the tree row shows what the event recorded
Mirrors(r, e) ==
    /\ r.status = e.monitor_status
    /\ r.tree_stage = e.monitor_stage
    /\ r.rcd_cm = e.rcd_cm
    /\ r.dbh_cm = e.dbh_cm
    /\ r.height_m = e.height_m
    /\ r.co2_kg = e.co2_kg
    /\ r.last_monitored = e.monitor_date

\* C16: when a monitoring submission has been ingested, in whatever order the
\* submissions of the tree were processed, the tree's status, tree_stage,
\* rcd_cm, dbh_cm, height_m, co2_kg and last_monitored are those of its
\* monitoring event with the latest observation date.
C16_MirrorsLatest ==
    [][\A p \in Sessions :
          (SaveMonitoring(p, "none") /\ Len(history') = Len(history) + 1) =>
              \A r \in Rows(trees') :
                  r.tree_id = cur[p].tree_id =>
                      \E e \in LatestEvents(history', r.tree_id) : Mirrors(r, e)]_vars

\* C17: monitoring history is append-only: no planting ingestion, monitoring
\* ingestion, admin edit of a tree or QR regeneration changes or removes a
\* committed monitoring_history row.
C17_HistoryAppendOnly ==
    [][/\ Len(history') >= Len(history)
       /\ \A i \in 1..Len(history) : history'[i] = history[i]]_vars

\* a committed event is still there after the admin edited the tree, its QR
\* code was regenerated and a monitoring submission was ingested
C17_Witness ==
    /\ Len(history) = 2
    /\ history[2].kobo_submission_id = 31
    /\ ~treesConstrained
    /\ \E r \in Rows(trees) : r.qr_code = "regenerated" /\ r.scientific_name = Teak

C19_TreesNeverRemoved ==
    [][TreeIds(trees) \subseteq TreeIds(trees')]_vars

\* a trunk size is provided and > 0
Given(x) == x # None /\ x > 0

\* C20: the estimator's priority rule, for every species: with dbh_cm > 0 the
\* DBH equation with the species density, whatever rcd_cm is; else with
\* rcd_cm > 0 the RCD equation, which has no density in it; else (both absent,
\* zero or negative) exactly 0.
C20_PriorityRule ==
    (est_out # <<>> /\ est_in.query_ok) =>
        LET density == density_of(est_in.species, est_in.scientific_name)
        IN  /\ Given(est_in.dbh) => est_out[1] = DbhEquation(density, est_in.dbh)
            /\ (~Given(est_in.dbh) /\ Given(est_in.rcd)) =>
                    est_out[1] = RcdEquation(est_in.rcd)
            /\ (~Given(est_in.dbh) /\ ~Given(est_in.rcd)) => est_out[1] = 0

\* both trunk sizes given, for a species of the table: the DBH equation's
\* value, which is not the RCD equation's
C20_Witness ==
    /\ est_out # <<>>
    /\ est_in.query_ok
    /\ est_in.dbh = 40
    /\ est_in.rcd = 10
    /\ \E r \in Rows(est_in.species) : r.scientific_name = est_in.scientific_name
    /\ est_out[1] # RcdEquation(est_in.rcd)

\* the estimate for the species and root-collar diameter of est_in with
\* breast-height diameter y
EstimateAtDbh(y) ==
    calculate_co2_sequestration(est_in.species, est_in.scientific_name, est_in.rcd, y, TRUE)
\* the estimate for the species of est_in with root-collar diameter y and no
\* breast-height diameter
EstimateAtRcd(y) ==
    calculate_co2_sequestration(est_in.species, est_in.scientific_name, y, None, TRUE)
\* the density the estimator uses for est_in
EstDensity == density_of(est_in.species, est_in.scientific_name)

\* C21 as stated: for a fixed species, the rounded estimate is strictly
\* increasing in the size it uses: in dbh_cm = x > 0 and, when dbh is absent,
\* in rcd_cm = x > 0 (here for a species of positive density).
C21_StrictlyIncreasing ==
    (est_out # <<>> /\ est_in.query_ok /\ EstDensity > 0) =>
        /\ Given(est_in.dbh) =>
              \A y \in Measures \ {None} : est_in.dbh < y => est_out[1] < EstimateAtDbh(y)
        /\ (est_in.dbh = None /\ Given(est_in.rcd)) =>
              \A y \in Measures \ {None} : est_in.rcd < y => est_out[1] < EstimateAtRcd(y)

\* C21 amended: for a fixed species, the rounded estimate never decreases
\* when the size it uses grows (sizes whose estimates round to the same
\* hundredth give equal results); with a negative density, which C15 shows
\* the species table can hold, the DBH estimate never increases.
C21_NonDecreasing ==
    (est_out # <<>> /\ est_in.query_ok) =>
        /\ Given(est_in.dbh) =>
              \A y \in Measures \ {None} :
                  est_in.dbh < y =>
                      IF EstDensity >= 0 THEN est_out[1] <= EstimateAtDbh(y)
                      ELSE est_out[1] >= EstimateAtDbh(y)
        /\ (est_in.dbh = None /\ Given(est_in.rcd)) =>
              \A y \in Measures \ {None} : est_in.rcd < y => est_out[1] <= EstimateAtRcd(y)

\* two sizes whose estimates round to the same hundredth, and a larger size
\* with a larger estimate
C21_Witness ==
    /\ est_out # <<>>
    /\ est_in.query_ok
    /\ EstDensity > 0
    /\ est_in.dbh = 1
    /\ est_out[1] = EstimateAtDbh(2)
    /\ est_out[1] < EstimateAtDbh(40)

\* c is the nearest integer to the square root of p / (4 * Limb ** n)
Nearest(c, p, n) ==
    /\ c >= 0
    /\ BigLess(p, BigShift(BigOf((2 * c + 1) * (2 * c + 1)), n))
    /\ c > 0 => ~BigLess(p, BigShift(BigOf((2 * c - 1) * (2 * c - 1)), n))

\* C22: the estimator returns round(0.47 * (AGB + 0.2 * AGB) * 3.67, 2) with
\* AGB = 0.0509 * density * dbh ** 2.5 (or 0.042 * rcd ** 2.5): density 0.65
\* with dbh 10 gives 21.65 kg within 0.01, and the default density 0.6 with
\* rcd 3.2 and no dbh gives 1.59 kg within 0.01.
C22_Formula ==
    (est_out # <<>> /\ est_in.query_ok) =>
        /\ (Given(est_in.dbh) /\ EstDensity > 0) =>
              Nearest(est_out[1],
                      BigProduct(<<47, 47, 12, 12, 367, 367, 509, 509, EstDensity, EstDensity,
                                   est_in.dbh, est_in.dbh, est_in.dbh, est_in.dbh, est_in.dbh,
                                   40>>), 6)
        /\ (~Given(est_in.dbh) /\ Given(est_in.rcd)) =>
              Nearest(est_out[1],
                      BigProduct(<<47, 47, 12, 12, 367, 367, 42, 42,
                                   est_in.rcd, est_in.rcd, est_in.rcd, est_in.rcd, est_in.rcd,
                                   4000>>), 5)
        /\ (EstDensity = 65 /\ est_in.dbh = 100) => est_out[1] \in 2164..2166
        /\ (EstDensity = DefaultDensity /\ est_in.dbh = None /\ est_in.rcd = 32) =>
              est_out[1] \in 158..160

\* the first scenario has been computed: density 0.65 and dbh 10
C22_Witness ==
    /\ est_out # <<>>
    /\ est_in.query_ok
    /\ EstDensity = 65
    /\ est_in.dbh = 100
    /\ est_out[1] = 2166

\* the estimate for a species of density 0.6 with the sizes of est_in
EstimateAtDefault ==
    calculate_co2_sequestration(<<[scientific_name |-> est_in.scientific_name,
                                   wood_density |-> DefaultDensity]>>,
                                est_in.scientific_name, est_in.rcd, est_in.dbh, TRUE)

\* the reference data holds no density for the name: no row, or a NULL density
NoStoredDensity ==
    LET matching == SelectSeq(est_in.species,
                              LAMBDA r : r.scientific_name = est_in.scientific_name)
    IN  matching = <<>> \/ matching[1].wood_density = None

\* C23: when the species name is not matched in the reference data, or its
\* stored density is absent, every copy of the estimator substitutes 0.6 and
\* returns what it returns for a species of density 0.6: the miss produces no
\* error and does not force the result to 0.0.
C23_DensityFallback ==
    (est_out # <<>> /\ est_in.query_ok /\ NoStoredDensity) =>
        /\ est_out[1] = EstimateAtDefault
        /\ est_out[2] = EstimateAtDefault

\* C24: the estimator is a function of (species density, rcd, dbh) only: every
\* copy returns the same result for the same arguments, whether or not the store
\* connection is available.
C24_PureFunction ==
    est_out # <<>> =>
        /\ est_out[1] = est_out[2]
        /\ est_out[1] = calculate_co2_sequestration(est_in.species, est_in.scientific_name,
                                                    est_in.rcd, est_in.dbh, TRUE)

InstitutionOf(r) == Lower(Strip(r.institution))

\* C26: a poll by a user of institution A creates trees only from planting
\* submissions whose institution is A in any case, and applies monitoring events
\* only to trees whose institution is A: the trees and the histories of other
\* institutions are as they were before the step, and no submission of another
\* institution is marked processed.
C26_InstitutionIsolation ==
    [][ \A p \in Sessions :
          /\ (pc[p] = "generated" /\ pc'[p] = "loop") =>
                /\ Len(trees') >= Len(trees)
                /\ \A i \in 1..Len(trees) : trees'[i] = trees[i]
                /\ \A i \in (Len(trees) + 1)..Len(trees') :
                      /\ InstitutionOf(trees'[i]) = Lower(inst[p])
                      /\ \E sub \in PlantingFeed :
                            /\ sub.id = trees'[i].kobo_submission_id
                            /\ InstitutionOf(sub) = Lower(inst[p])
                /\ \A h \in Rows(history') \ Rows(history) :
                      \A r \in Rows(trees') :
                          r.tree_id = h.tree_id => InstitutionOf(r) = Lower(inst[p])
          /\ (pc[p] = "mmapped" /\ pc'[p] = "mloop") =>
                /\ Len(trees') = Len(trees)
                /\ \A i \in 1..Len(trees) :
                      trees'[i] # trees[i] => InstitutionOf(trees[i]) = Lower(inst[p])
                /\ \A h \in Rows(history') \ Rows(history) :
                      \A r \in Rows(trees) :
                          r.tree_id = h.tree_id => InstitutionOf(r) = Lower(inst[p])
                /\ \A m \in processed' \ processed :
                      \A r \in Rows(trees) :
                          r.tree_id = m.tree_id => InstitutionOf(r) = Lower(inst[p])
      ]_vars

\* C27: whichever initializer ran first on the empty database, the shared
\* tables have every column their writers use: monitoring_history has
\* kobo_submission_id, and a valid monitoring submission for an existing tree
\* that no history row records yet is saved when nothing else fails.
C27_SchemaConverged ==
    /\ MhHasKoboColumn(mhSchema)
    /\ \A p \in Sessions :
          (/\ pc[p] = "mmapped"
           /\ \A r \in Rows(history) : r.kobo_submission_id # cur[p].kobo_submission_id
           /\ \A r \in processed : r.submission_id # cur[p].kobo_submission_id)
          => save_monitoring_submission(trees, history, processed, mhSchema,
                                        cur[p], "none").ok

\* C28: in every reachable state the store enforces the uniqueness of
\* trees.tree_id and of trees.kobo_submission_id, also after the admin's
\* "Update Tree" rewrote the table: an insert of a tree_id or of a submission id
\* that a row already has is rejected.
C28_UniquenessEnforced ==
    /\ treesConstrained
    /\ \A p \in Sessions :
          (/\ pc[p] = "generated"
           /\ \/ tid[p] \in TreeIds(trees)
              \/ is_submission_processed(cur[p].kobo_submission_id, trees, TRUE))
          => ~save_tree_submission(trees, history, treesConstrained,
                                   cur[p], tid[p], "none").ok

\* C29: a planting submission with an identifier, an institution and a local
\* name that matches the polling user's institution in any case and is not
\* processed is persisted as a tree by that poll or, under repeated polling
\* with the store available, by a later one, whatever the store holds.
C29_IngestionProgress ==
    \A p \in Sessions : \A sub \in ProgressFeed :
        (/\ pc[p] = "loop"
         /\ InstitutionOf(sub) = Lower(inst[p])
         /\ ~is_submission_processed(sub.id, trees, TRUE))
        ~> is_submission_processed(sub.id, trees, TRUE)

\* the mapped data of the same submission in a poll without debug mode
Plain(m) == [f \in DOMAIN m \ {"match_info"} |-> m[f]]

\* C30: debug mode is observation-only: on the same store and the same
\* submission, save_tree_submission persists the same rows and the poll
\* collects the same result whether session_state.debug_mode is set or not.
C30_DebugObservationOnly ==
    [][ \A p \in Sessions :
          SaveTree(p, "none") =>
              LET r == save_tree_submission(trees, history, treesConstrained,
                                            Plain(cur[p]), tid[p], "none")
              IN  /\ trees' = r.trees
                  /\ history' = r.history
                  /\ results'[p] = IF r.ok THEN Append(results[p], tid[p]) ELSE results[p]
      ]_vars

====
